---- MODULE Spec2Model ----
(***************************************************************************)
(* A model of package plot (src/plot/plot.go): the Plot aggregate with its *)
(* Add, Draw and Save operations and the anti-clip padding passes padX and *)
(* padY with their edge-box selection.                                     *)
(*                                                                         *)
(* float64 and vg.Length values are modelled as exact extended rationals:  *)
(* a record [n, d] in lowest terms with d > 0 is the number n/d, and d = 0 *)
(* encodes the IEEE special values +Inf (n = 1), -Inf (n = -1) and NaN     *)
(* (n = 0).  Rounding and the sign of zero are not modelled; x - x is +0   *)
(* as in round-to-nearest.                                                 *)
(***************************************************************************)
EXTENDS Integers, Sequences, FiniteSets, TLC

VARIABLES plotters, X, Y, cfg, op, calls, ret

vars == <<plotters, X, Y, cfg, op, calls, ret>>

(***************************************************************************)
(* Bounds of the model.                                                    *)
(***************************************************************************)
\* longest plotter list the model lets Add build
MaxPlotters == 2
\* most glyph-boxing plotters of a plot given to a padding pass
MaxPadPlotters == 2

(***************************************************************************)
(* float64 arithmetic.                                                     *)
(***************************************************************************)
Abs(i) == IF i < 0 THEN -i ELSE i

Sign(i) == IF i < 0 THEN -1 ELSE IF i > 0 THEN 1 ELSE 0

RECURSIVE GCD(_, _)
GCD(a, b) == IF b = 0 THEN a ELSE GCD(b, a % b)

\* the float with value n/d; a zero denominator gives +Inf, -Inf or NaN
R(n, d) ==
    IF d = 0 THEN [n |-> Sign(n), d |-> 0]
    ELSE LET g == GCD(Abs(n), Abs(d))
             s == IF d < 0 THEN -1 ELSE 1
         IN  [n |-> (s * n) \div g, d |-> (s * d) \div g]

I(i) == [n |-> i, d |-> 1]

NaN == [n |-> 0, d |-> 0]

PosInf == [n |-> 1, d |-> 0]

NegInf == [n |-> -1, d |-> 0]

IsNaN(a) == a.d = 0 /\ a.n = 0

IsInf(a) == a.d = 0 /\ a.n # 0

IsFinite(a) == a.d # 0

FNeg(a) == [n |-> -a.n, d |-> a.d]

FAdd(a, b) ==
    IF a.d # 0 /\ b.d # 0 THEN R(a.n * b.d + b.n * a.d, a.d * b.d)
    ELSE IF IsNaN(a) \/ IsNaN(b) THEN NaN
    ELSE IF a.d = 0 /\ b.d = 0 THEN (IF a.n = b.n THEN a ELSE NaN)
    ELSE IF a.d = 0 THEN a ELSE b

FSub(a, b) == FAdd(a, FNeg(b))

FMul(a, b) == R(a.n * b.n, a.d * b.d)

\* 1/b; 1/0 is +Inf and 1/Inf is 0
FRecip(b) == IF b.n < 0 THEN [n |-> -b.d, d |-> -b.n] ELSE [n |-> b.d, d |-> b.n]

\* a/b: x/0 is +Inf or -Inf by the sign of x, and 0/0 is NaN
FDiv(a, b) == FMul(a, FRecip(b))

\* the comparisons of float64: every comparison with NaN is false
FEq(a, b) == ~IsNaN(a) /\ ~IsNaN(b) /\ a = b

FLt(a, b) ==
    IF IsNaN(a) \/ IsNaN(b) \/ a = b THEN FALSE
    ELSE IF a = NegInf \/ b = PosInf THEN TRUE
    ELSE IF a = PosInf \/ b = NegInf THEN FALSE
    ELSE a.n * b.d < b.n * a.d

FLe(a, b) == FEq(a, b) \/ FLt(a, b)

\* math.Min and math.Max of the Go library
mathMin(a, b) ==
    IF a = NegInf \/ b = NegInf THEN NegInf
    ELSE IF IsNaN(a) \/ IsNaN(b) THEN NaN
    ELSE IF FLt(a, b) THEN a ELSE b

mathMax(a, b) ==
    IF a = PosInf \/ b = PosInf THEN PosInf
    ELSE IF IsNaN(a) \/ IsNaN(b) THEN NaN
    ELSE IF FLt(b, a) THEN a ELSE b

(***************************************************************************)
(* Geometry: Point, Rect, DrawArea, GlyphBox.                              *)
(***************************************************************************)
Point(x, y) == [X |-> x, Y |-> y]

Rect(minx, miny, sx, sy) == [Min |-> Point(minx, miny), Size |-> Point(sx, sy)]

\* a region with integer corner and size
Area(minx, miny, sx, sy) == Rect(I(minx), I(miny), I(sx), I(sy))

\* Rect.Max: Min + Size
Max(da) == Point(FAdd(da.Min.X, da.Size.X), FAdd(da.Min.Y, da.Size.Y))

\* DrawArea.X and DrawArea.Y: normalized fraction to device length
daX(da, f) == FAdd(FMul(f, FSub(Max(da).X, da.Min.X)), da.Min.X)

daY(da, f) == FAdd(FMul(f, FSub(Max(da).Y, da.Min.Y)), da.Min.Y)

\* DrawArea.crop: inset by the margins left, bottom, right, top
crop(da, left, bottom, right, top) ==
    [Min  |-> Point(FAdd(da.Min.X, left), FAdd(da.Min.Y, bottom)),
     Size |-> Point(FSub(FSub(da.Size.X, left), right),
                    FSub(FSub(da.Size.Y, bottom), top))]

\* GlyphBox{X, Y, Rect}: the anchor and the offset rectangle
GlyphBox(ax, ay, r) == [X |-> ax, Y |-> ay, Min |-> r.Min, Size |-> r.Size]

\* the zero GlyphBox{} and the sentinels GlyphBox{X: 1}, GlyphBox{Y: 1}
ZeroBox == GlyphBox(I(0), I(0), Area(0, 0, 0, 0))

SentinelX1 == GlyphBox(I(1), I(0), Area(0, 0, 0, 0))

SentinelY1 == GlyphBox(I(0), I(1), Area(0, 0, 0, 0))

\* the plot as the operations see it
P == [plotters |-> plotters, cfg |-> cfg]

(***************************************************************************)
(* Glyph-box collection and edge-box selection.                            *)
(***************************************************************************)
RECURSIVE GlyphBoxesFrom(_, _)
GlyphBoxesFrom(p, i) ==
    IF i > Len(p.plotters) THEN <<>>
    ELSE (IF p.plotters[i].boxer THEN p.plotters[i].boxes ELSE <<>>)
         \o GlyphBoxesFrom(p, i + 1)

\* Plot.GlyphBoxes: the boxes of every GlyphBoxer, in registration order
GlyphBoxes(p) == GlyphBoxesFrom(p, 1)

\* horizontalAxis{p.X}.GlyphBoxes(p) and verticalAxis{p.Y}.GlyphBoxes(p)
xAxisGlyphBoxes(p) == p.cfg.xBoxes

yAxisGlyphBoxes(p) == p.cfg.yBoxes

RECURSIVE leftMostFrom(_, _, _, _, _)
leftMostFrom(da, boxes, i, minx, l) ==
    IF i > Len(boxes) THEN l
    ELSE LET b == boxes[i]
             x == FAdd(daX(da, b.X), b.Min.X)
         IN  IF FLt(x, minx) /\ FLe(I(0), b.X)
             THEN leftMostFrom(da, boxes, i + 1, x, b)
             ELSE leftMostFrom(da, boxes, i + 1, minx, l)

leftMost(da, boxes) == leftMostFrom(da, boxes, 1, da.Min.X, ZeroBox)

RECURSIVE rightMostFrom(_, _, _, _, _)
rightMostFrom(da, boxes, i, maxx, r) ==
    IF i > Len(boxes) THEN r
    ELSE LET b == boxes[i]
             x == FAdd(FAdd(daX(da, b.X), b.Min.X), b.Size.X)
         IN  IF FLt(maxx, x) /\ FLe(b.X, I(1))
             THEN rightMostFrom(da, boxes, i + 1, x, b)
             ELSE rightMostFrom(da, boxes, i + 1, maxx, r)

\* rightMost starting from the zero GlyphBox{} instead of GlyphBox{X: 1}
rightMostZeroSentinel(da, boxes) == rightMostFrom(da, boxes, 1, Max(da).X, ZeroBox)

rightMost(da, boxes) == rightMostFrom(da, boxes, 1, Max(da).X, SentinelX1)

RECURSIVE bottomMostFrom(_, _, _, _, _)
bottomMostFrom(da, boxes, i, miny, l) ==
    IF i > Len(boxes) THEN l
    ELSE LET b == boxes[i]
             y == FAdd(daY(da, b.Y), b.Min.Y)
         IN  IF FLt(y, miny) /\ FLe(I(0), b.Y)
             THEN bottomMostFrom(da, boxes, i + 1, y, b)
             ELSE bottomMostFrom(da, boxes, i + 1, miny, l)

bottomMost(da, boxes) == bottomMostFrom(da, boxes, 1, da.Min.Y, ZeroBox)

RECURSIVE topMostFrom(_, _, _, _, _)
topMostFrom(da, boxes, i, maxy, t) ==
    IF i > Len(boxes) THEN t
    ELSE LET b == boxes[i]
             y == FAdd(FAdd(daY(da, b.Y), b.Min.Y), b.Size.Y)
         IN  IF FLt(maxy, y) /\ FLe(b.Y, I(1))
             THEN topMostFrom(da, boxes, i + 1, y, b)
             ELSE topMostFrom(da, boxes, i + 1, maxy, t)

topMost(da, boxes) == topMostFrom(da, boxes, 1, Max(da).Y, SentinelY1)

(***************************************************************************)
(* The padding passes.                                                     *)
(***************************************************************************)
\* padX selecting the left-most box after the axis boxes are appended
padXBoxesAfterAppend(p, da) ==
    LET glyphs == GlyphBoxes(p) \o xAxisGlyphBoxes(p)
    IN  [l |-> leftMost(da, glyphs), r |-> rightMost(da, glyphs)]

\* the left-most and right-most boxes of padX: l is selected before the
\* axis boxes are appended, r after
padXBoxes(p, da) ==
    LET glyphs == GlyphBoxes(p)
    IN  [l |-> leftMost(da, glyphs),
         r |-> rightMost(da, glyphs \o xAxisGlyphBoxes(p))]

\* padX returning m as the size instead of m - n
padXSolveSizeM(da, l, r) ==
    LET minx == FSub(da.Min.X, l.Min.X)
        maxx == FSub(Max(da).X, FAdd(r.Min.X, r.Size.X))
        lx   == l.X
        rx   == r.X
        n    == FDiv(FSub(FMul(lx, maxx), FMul(rx, minx)), FSub(lx, rx))
        m    == FDiv(FAdd(FSub(FMul(FSub(lx, I(1)), maxx), FMul(rx, minx)), minx),
                     FSub(lx, rx))
    IN  [Min  |-> Point(n, da.Min.Y),
         Size |-> Point(m, da.Size.Y)]

\* the solved region of padX for the selected boxes l and r
padXSolve(da, l, r) ==
    LET minx == FSub(da.Min.X, l.Min.X)
        maxx == FSub(Max(da).X, FAdd(r.Min.X, r.Size.X))
        lx   == l.X
        rx   == r.X
        n    == FDiv(FSub(FMul(lx, maxx), FMul(rx, minx)), FSub(lx, rx))
        m    == FDiv(FAdd(FSub(FMul(FSub(lx, I(1)), maxx), FMul(rx, minx)), minx),
                     FSub(lx, rx))
    IN  [Min  |-> Point(n, da.Min.Y),
         Size |-> Point(FSub(m, n), da.Size.Y)]

padX(p, da) ==
    LET s == padXBoxes(p, da) IN padXSolve(da, s.l, s.r)

\* the bottom-most and top-most boxes of padY
padYBoxes(p, da) ==
    LET glyphs == GlyphBoxes(p)
    IN  [b |-> bottomMost(da, glyphs),
         t |-> topMost(da, glyphs \o yAxisGlyphBoxes(p))]

padYSolve(da, b, t) ==
    LET miny == FSub(da.Min.Y, b.Min.Y)
        maxy == FSub(Max(da).Y, FAdd(t.Min.Y, t.Size.Y))
        by   == b.Y
        ty   == t.Y
        n    == FDiv(FSub(FMul(by, maxy), FMul(ty, miny)), FSub(by, ty))
        m    == FDiv(FAdd(FSub(FMul(FSub(by, I(1)), maxy), FMul(ty, miny)), miny),
                     FSub(by, ty))
    IN  [Min  |-> Point(da.Min.X, n),
         Size |-> Point(da.Size.X, FSub(m, n))]

padY(p, da) ==
    LET s == padYBoxes(p, da) IN padYSolve(da, s.b, s.t)

(***************************************************************************)
(* Plotters, axes and plot configuration.                                  *)
(***************************************************************************)
\* the anchor k/2
H(k) == R(k, 2)

\* a glyph box with anchor (ax, ay) and integer offset rectangle
Box(ax, ay, minx, miny, sx, sy) == GlyphBox(ax, ay, Area(minx, miny, sx, sy))

NoRange == [xmin |-> I(0), xmax |-> I(0), ymin |-> I(0), ymax |-> I(0)]

\* a value implementing Plotter; ranger and boxer tell whether it also
\* implements DataRanger and GlyphBoxer
Plotter(name, ranger, range, boxer, boxes) ==
    [name |-> name, ranger |-> ranger, range |-> range,
     boxer |-> boxer, boxes |-> boxes]

NoPlotter == Plotter("none", FALSE, NoRange, FALSE, <<>>)

Line ==
    Plotter("line", TRUE,
            [xmin |-> I(1), xmax |-> I(3), ymin |-> I(2), ymax |-> I(5)],
            FALSE, <<>>)

Scatter ==
    Plotter("scatter", TRUE,
            [xmin |-> I(-2), xmax |-> I(2), ymin |-> I(0), ymax |-> I(9)],
            TRUE, <<Box(I(0), I(0), -3, -3, 6, 6), Box(I(1), I(1), -3, -3, 6, 6)>>)

Labels ==
    Plotter("labels", FALSE, NoRange, TRUE, <<Box(H(1), I(1), -10, 0, 20, 8)>>)

Func == Plotter("func", FALSE, NoRange, FALSE, <<>>)

\* one glyph wider than any region, anchored at the centre
Banner ==
    Plotter("banner", FALSE, NoRange, TRUE, <<Box(H(1), H(1), -200, -3, 400, 6)>>)

PlotterKinds == {Line, Scatter, Labels, Func, Banner}

\* the argument lists of one Add call
ArgSeqs == UNION {[1..n -> PlotterKinds] : n \in 0..2}

\* the glyph boxes the padding passes are exercised with
PadBoxes ==
    {Box(I(0), I(0), -10, -4, 10, 8),
     Box(I(1), I(1), 0, -2, 15, 12),
     Box(H(1), H(1), -5, -5, 10, 10),
     Box(H(1), H(1), -80, -70, 160, 150),
     Box(I(1), I(1), -150, -130, 10, 10),
     Box(H(-1), H(-1), 0, 0, 200, 170),
     Box(H(3), H(3), -300, -260, 10, 10),
     Box(H(1), H(1), -59, -48, 5, 5)}

PadPlotters == {Plotter("glyph", FALSE, NoRange, TRUE, <<b>>) : b \in PadBoxes}

PadPlotterSeqs == UNION {[1..n -> PadPlotters] : n \in 0..MaxPadPlotters}

PadAxisBoxes == {<<>>} \cup {<<b>> : b \in PadBoxes}

PadAreas == {Area(0, 0, 100, 100), Area(10, 20, 60, 40)}

DrawAreas == {Area(0, 0, 200, 150), Area(10, 10, 120, 100)}

\* the tick labels at both ends of an axis
XTickBoxes == <<Box(I(0), I(0), -6, -10, 12, 10), Box(I(1), I(0), -6, -10, 12, 10)>>

YTickBoxes == <<Box(I(0), I(0), -15, -4, 15, 8), Box(I(0), I(1), -15, -4, 15, 8)>>

\* what Draw reads of the plot besides its plotters: BackgroundColor # nil,
\* Title.Text, Title.Height(Text) - Title.Font.Extents().Descent, the
\* results of y.size() and x.size(), and the glyph boxes of the two axes
Config(bg, title, shrink, ywidth, xheight, xBoxes, yBoxes) ==
    [bg |-> bg, title |-> title, titleShrink |-> shrink,
     ywidth |-> ywidth, xheight |-> xheight,
     xBoxes |-> xBoxes, yBoxes |-> yBoxes]

Configs ==
    {Config(bg, t[1], t[2], s[1], s[2], a[1], a[2]) :
        bg \in BOOLEAN,
        t \in {<<"", I(0)>>, <<"Title", I(12)>>},
        s \in {<<I(5), I(8)>>, <<I(20), I(12)>>},
        a \in {<< <<>>, <<>> >>, <<XTickBoxes, YTickBoxes>>}}

SaveConfigs ==
    {Config(TRUE, "", I(0), I(5), I(8), <<>>, <<>>),
     Config(FALSE, "Title", I(12), I(20), I(12), XTickBoxes, YTickBoxes)}

PadConfigs ==
    {Config(TRUE, "", I(0), I(0), I(0), a, a) : a \in PadAxisBoxes}

\* makeAxis: a new axis covers no data
makeAxis == [Min |-> PosInf, Max |-> NegInf]

\* Axis.sanitizeRange: make the range finite, ordered and non-empty
sanitizeRange(a) ==
    LET lo == IF IsFinite(a.Min) THEN a.Min ELSE I(0)
        hi == IF IsFinite(a.Max) THEN a.Max ELSE I(0)
        mn == IF FLt(hi, lo) THEN hi ELSE lo
        mx == IF FLt(hi, lo) THEN lo ELSE hi
    IN  IF mn = mx THEN [Min |-> FSub(mn, I(1)), Max |-> FAdd(mx, I(1))]
        ELSE [Min |-> mn, Max |-> mx]

(***************************************************************************)
(* The record of the last call and of what it did.                         *)
(***************************************************************************)
NoArea == Area(0, 0, 0, 0)

NoFile == <<>>

Call(name, da, ps, file, newOk, saveOk) ==
    [name |-> name, da |-> da, ps |-> ps, file |-> file,
     newOk |-> newOk, saveOk |-> saveOk]

\* one call on the canvas, an axis, a plotter, the legend or a backend
Ev(name, da, arg) == [op |-> name, da |-> da, arg |-> arg]

Err(kind, ext) == [kind |-> kind, ext |-> ext]

NilErr == Err("nil", <<>>)

Ret(err, area) == [err |-> err, area |-> area]

NoRet == Ret(NilErr, NoArea)

(***************************************************************************)
(* Plot.Add.                                                               *)
(***************************************************************************)
\* Add overwriting the bounds with the reported range
widenAssign(ax, d) ==
    [X |-> [Min |-> d.xmin, Max |-> d.xmax],
     Y |-> [Min |-> d.ymin, Max |-> d.ymax]]

\* the body of the loop of Add for a DataRanger reporting d
widen(ax, d) ==
    [X |-> [Min |-> mathMin(ax.X.Min, d.xmin), Max |-> mathMax(ax.X.Max, d.xmax)],
     Y |-> [Min |-> mathMin(ax.Y.Min, d.ymin), Max |-> mathMax(ax.Y.Max, d.ymax)]]

RECURSIVE AddRanges(_, _, _)
AddRanges(ax, ps, i) ==
    IF i > Len(ps) THEN ax
    ELSE IF ps[i].ranger THEN AddRanges(widen(ax, ps[i].range), ps, i + 1)
    ELSE AddRanges(ax, ps, i + 1)

Add(ps) ==
    /\ Len(plotters) + Len(ps) <= MaxPlotters
    /\ LET ax == AddRanges([X |-> X, Y |-> Y], ps, 1)
       IN  X' = ax.X /\ Y' = ax.Y
    /\ plotters' = plotters \o ps
    /\ op' = Call("Add", NoArea, ps, NoFile, TRUE, TRUE)
    /\ calls' = <<>>
    /\ ret' = NoRet
    /\ UNCHANGED cfg

(***************************************************************************)
(* Plot.Draw.                                                              *)
(***************************************************************************)
\* the region left under the title
underTitle(p, da) ==
    IF p.cfg.title # "" THEN [da EXCEPT !.Size.Y = FSub(@, p.cfg.titleShrink)]
    ELSE da

\* the region the horizontal axis is drawn in, without the crop by ywidth
xAxisAreaUncropped(p, da) == padX(p, da)

\* the region the horizontal axis is drawn in
xAxisArea(p, da) == padX(p, crop(da, p.cfg.ywidth, I(0), I(0), I(0)))

\* the region the vertical axis is drawn in
yAxisArea(p, da) == padY(p, crop(da, I(0), p.cfg.xheight, I(0), I(0)))

\* the final inner region, given to the plotters and the legend
innerArea(p, da) ==
    padY(p, padX(p, crop(da, p.cfg.ywidth, p.cfg.xheight, I(0), I(0))))

\* the loop over the plotters, last plotter first
PlotCallsReversed(p, inner) ==
    [i \in 1..Len(p.plotters) |->
        Ev("Plot", inner, p.plotters[Len(p.plotters) + 1 - i])]

\* the loop of Draw over the plotters
PlotCalls(p, inner) ==
    [i \in 1..Len(p.plotters) |-> Ev("Plot", inner, p.plotters[i])]

\* the calls Draw makes, in order
DrawCalls(p, da0) ==
    LET bg    == IF p.cfg.bg
                 THEN <<Ev("SetColor", da0, NoPlotter), Ev("Fill", da0, NoPlotter)>>
                 ELSE <<>>
        title == IF p.cfg.title # ""
                 THEN <<Ev("FillText", da0, NoPlotter)>>
                 ELSE <<>>
        da    == underTitle(p, da0)
    IN  bg \o title
        \o <<Ev("x.draw", xAxisArea(p, da), NoPlotter),
             Ev("y.draw", yAxisArea(p, da), NoPlotter)>>
        \o PlotCalls(p, innerArea(p, da))
        \o <<Ev("Legend.draw", innerArea(p, da), NoPlotter)>>

Draw ==
    \E da \in DrawAreas :
        /\ calls' = DrawCalls(P, da)
        /\ X' = sanitizeRange(X)
        /\ Y' = sanitizeRange(Y)
        /\ op' = Call("Draw", da, <<>>, NoFile, TRUE, TRUE)
        /\ ret' = NoRet
        /\ UNCHANGED <<plotters, cfg>>

(***************************************************************************)
(* Plot.Save.  A file name is a sequence of one-character strings.         *)
(***************************************************************************)
Uppers ==
    <<"A", "B", "C", "D", "E", "F", "G", "H", "I", "J", "K", "L", "M",
      "N", "O", "P", "Q", "R", "S", "T", "U", "V", "W", "X", "Y", "Z">>

Lowers ==
    <<"a", "b", "c", "d", "e", "f", "g", "h", "i", "j", "k", "l", "m",
      "n", "o", "p", "q", "r", "s", "t", "u", "v", "w", "x", "y", "z">>

\* strings.ToLower
ToLower(str) ==
    [i \in 1..Len(str) |->
        IF \E k \in 1..Len(Uppers) : Uppers[k] = str[i]
        THEN Lowers[CHOOSE k \in 1..Len(Uppers) : Uppers[k] = str[i]]
        ELSE str[i]]

IsPathSeparator(c) == c = "/"

\* filepath.Ext: the suffix from the last dot of the last path element
RECURSIVE ExtFrom(_, _)
ExtFrom(path, i) ==
    IF i < 1 THEN <<>>
    ELSE IF IsPathSeparator(path[i]) THEN <<>>
    ELSE IF path[i] = "." THEN SubSeq(path, i, Len(path))
    ELSE ExtFrom(path, i - 1)

Ext(path) == ExtFrom(path, Len(path))

\* NewDrawArea(c, w, h): the whole canvas
NewDrawArea(w, h) == Rect(I(0), I(0), w, h)

\* the file names Save is called with
Paths ==
    {<<"a", ".", "p", "n", "g">>,
     <<"a", ".", "P", "N", "G">>,
     <<"a", ".", "P", "n", "g">>,
     <<"a", ".", "j", "p", "g">>,
     <<"a", ".", "J", "P", "G">>,
     <<"a", ".", "j", "p", "e", "g">>,
     <<"a", ".", "e", "p", "s">>,
     <<"a", ".", "E", "p", "s">>,
     <<"a", ".", "s", "v", "g">>,
     <<"a", ".", "b", ".", "S", "V", "G">>,
     <<"a", ".", "p", "d", "f">>,
     <<".", "p", "d", "f">>,
     <<"a", ".", "b", "m", "p">>,
     <<"a", ".", "p", "n", "g", "x">>,
     <<"a", ".", "p", "n", "g", "/", "b">>,
     <<"p", "n", "g">>,
     <<"a", ".">>}

\* the canvas sizes vg.Inches(width), vg.Inches(height) of a Save call
SaveSizes == {<<I(288), I(216)>>}

\* the extension Save switches on, without lower-casing
saveExtAsWritten(file) == Ext(file)

\* the extension Save switches on
saveExt(file) == ToLower(Ext(file))

\* what Save does: the error returned, whether Draw ran, and the calls made
Save(p, w, h, file, newOk, saveOk) ==
    LET ext     == saveExt(file)
        da      == NewDrawArea(w, h)
        saveErr == IF saveOk THEN NilErr ELSE Err("save", <<>>)
        drawn(new, save, err) ==
            [err |-> err, drew |-> TRUE,
             calls |-> <<Ev(new, da, NoPlotter), Ev("Draw", da, NoPlotter)>>
                       \o DrawCalls(p, da)
                       \o <<Ev(save, da, NoPlotter)>>]
        failed(new) ==
            [err |-> Err("new", <<>>), drew |-> FALSE,
             calls |-> <<Ev(new, da, NoPlotter)>>]
    IN  CASE ext = <<".", "e", "p", "s">> ->
               drawn("veceps.New", "veceps.Save", NilErr)
          [] ext = <<".", "p", "n", "g">> ->
               IF newOk THEN drawn("vecimg.New", "SavePNG", saveErr)
               ELSE failed("vecimg.New")
          [] ext \in {<<".", "j", "p", "g">>, <<".", "j", "p", "e", "g">>} ->
               IF newOk THEN drawn("vecimg.New", "SaveJPEG", saveErr)
               ELSE failed("vecimg.New")
          [] ext = <<".", "s", "v", "g">> ->
               drawn("vecsvg.New", "vecsvg.Save", saveErr)
          [] ext = <<".", "p", "d", "f">> ->
               drawn("vecpdf.New", "vecpdf.Save", saveErr)
          [] OTHER ->
               [err |-> Err("Unsupported file extension", ext), drew |-> FALSE,
                calls |-> <<>>]

SaveFile ==
    \E file \in Paths, size \in SaveSizes, newOk \in BOOLEAN, saveOk \in BOOLEAN :
        \E r \in {Save(P, size[1], size[2], file, newOk, saveOk)} :
            /\ calls' = r.calls
            /\ ret' = Ret(r.err, NoArea)
            /\ X' = IF r.drew THEN sanitizeRange(X) ELSE X
            /\ Y' = IF r.drew THEN sanitizeRange(Y) ELSE Y
            /\ op' = Call("Save", NewDrawArea(size[1], size[2]), <<>>, file,
                          newOk, saveOk)
            /\ UNCHANGED <<plotters, cfg>>

(***************************************************************************)
(* The padding passes as operations of their own.                          *)
(***************************************************************************)
PadX ==
    \E da \in PadAreas :
        /\ ret' = Ret(NilErr, padX(P, da))
        /\ op' = Call("padX", da, <<>>, NoFile, TRUE, TRUE)
        /\ UNCHANGED <<plotters, X, Y, cfg, calls>>

PadY ==
    \E da \in PadAreas :
        /\ ret' = Ret(NilErr, padY(P, da))
        /\ op' = Call("padY", da, <<>>, NoFile, TRUE, TRUE)
        /\ UNCHANGED <<plotters, X, Y, cfg, calls>>

(***************************************************************************)
(* Specifications.                                                         *)
(***************************************************************************)
\* the plot returned by New, configured
Init ==
    /\ plotters = <<>>
    /\ X = makeAxis
    /\ Y = makeAxis
    /\ cfg \in Configs
    /\ op = Call("New", NoArea, <<>>, NoFile, TRUE, TRUE)
    /\ calls = <<>>
    /\ ret = NoRet

Next ==
    \/ \E ps \in ArgSeqs : Add(ps)
    \/ Draw

Spec == Init /\ [][Next]_vars

\* sequences of Add calls alone
NextAdd == \E ps \in ArgSeqs : Add(ps)

SpecAdd == Init /\ [][NextAdd]_vars

\* a plot some plotters were added to, about to be saved
InitSave ==
    /\ plotters \in {<<>>, <<Line>>, <<Scatter, Labels>>, <<Func, Banner>>}
    /\ \E ax \in {AddRanges([X |-> makeAxis, Y |-> makeAxis], plotters, 1)} :
           X = ax.X /\ Y = ax.Y
    /\ cfg \in SaveConfigs
    /\ op = Call("New", NoArea, <<>>, NoFile, TRUE, TRUE)
    /\ calls = <<>>
    /\ ret = NoRet

NextSave == SaveFile

SpecSave == InitSave /\ [][NextSave]_vars

\* a plot holding glyph-boxing plotters, given to the padding passes
InitPad ==
    /\ plotters \in PadPlotterSeqs
    /\ X = makeAxis
    /\ Y = makeAxis
    /\ cfg \in PadConfigs
    /\ op = Call("New", NoArea, <<>>, NoFile, TRUE, TRUE)
    /\ calls = <<>>
    /\ ret = NoRet

NextPad == PadX \/ PadY

SpecPad == InitPad /\ [][NextPad]_vars

(***************************************************************************)
(* Properties of the padding passes, checked under SpecPad.                *)
(***************************************************************************)
\* the boxes a horizontal and a vertical pass collect
AllXBoxes == GlyphBoxes(P) \o xAxisGlyphBoxes(P)

AllYBoxes == GlyphBoxes(P) \o yAxisGlyphBoxes(P)

\* the transform of a region: X(f) = Min.X + f * Size.X
InnerX(r, f) == FAdd(r.Min.X, FMul(f, r.Size.X))

InnerY(r, f) == FAdd(r.Min.Y, FMul(f, r.Size.Y))

\* the edges of box b positioned in region r
LeftEdge(r, b) == FAdd(InnerX(r, b.X), b.Min.X)

RightEdge(r, b) == FAdd(FAdd(InnerX(r, b.X), b.Min.X), b.Size.X)

BottomEdge(r, b) == FAdd(InnerY(r, b.Y), b.Min.Y)

TopEdge(r, b) == FAdd(FAdd(InnerY(r, b.Y), b.Min.Y), b.Size.Y)

SameRegion(r, q) ==
    /\ FEq(r.Min.X, q.Min.X) /\ FEq(r.Min.Y, q.Min.Y)
    /\ FEq(r.Size.X, q.Size.X) /\ FEq(r.Size.Y, q.Size.Y)

InUnit(f) == FLe(I(0), f) /\ FLe(f, I(1))

InsideUnit(f) == FLt(I(0), f) /\ FLt(f, I(1))

\* C1: after a non-singular pass every collected glyph box anchored in
\* [0,1], positioned in the returned region, lies within the given region.
AntiClipGuarantee ==
    /\ op.name = "padX" =>
         LET s == padXBoxes(P, op.da)
         IN  s.l.X # s.r.X =>
               \A i \in 1..Len(AllXBoxes) :
                   InUnit(AllXBoxes[i].X) =>
                     /\ FLe(op.da.Min.X, LeftEdge(ret.area, AllXBoxes[i]))
                     /\ FLe(RightEdge(ret.area, AllXBoxes[i]), Max(op.da).X)
    /\ op.name = "padY" =>
         LET s == padYBoxes(P, op.da)
         IN  s.b.Y # s.t.Y =>
               \A i \in 1..Len(AllYBoxes) :
                   InUnit(AllYBoxes[i].Y) =>
                     /\ FLe(op.da.Min.Y, BottomEdge(ret.area, AllYBoxes[i]))
                     /\ FLe(TopEdge(ret.area, AllYBoxes[i]), Max(op.da).Y)

\* C2: when the selected boxes have different anchors, the returned region
\* puts the left (bottom) box's left (bottom) edge exactly on the given
\* region's left (bottom) edge and the right (top) box's right (top) edge
\* exactly on its right (top) edge.
PaddingExactness ==
    /\ op.name = "padX" =>
         LET s == padXBoxes(P, op.da)
         IN  s.l.X # s.r.X =>
               /\ FEq(LeftEdge(ret.area, s.l), op.da.Min.X)
               /\ FEq(RightEdge(ret.area, s.r), Max(op.da).X)
    /\ op.name = "padY" =>
         LET s == padYBoxes(P, op.da)
         IN  s.b.Y # s.t.Y =>
               /\ FEq(BottomEdge(ret.area, s.b), op.da.Min.Y)
               /\ FEq(TopEdge(ret.area, s.t), Max(op.da).Y)

\* a pass that selected two glyph boxes, neither a sentinel, with different
\* anchors, and moved both edges of the region
PaddingExactnessWitness ==
    \/ /\ op.name = "padX"
       /\ LET s == padXBoxes(P, op.da)
          IN  /\ s.l.X # s.r.X /\ s.l # ZeroBox /\ s.r # SentinelX1
              /\ FLt(op.da.Min.X, ret.area.Min.X)
              /\ FLt(Max(ret.area).X, Max(op.da).X)
    \/ /\ op.name = "padY"
       /\ LET s == padYBoxes(P, op.da)
          IN  /\ s.b.Y # s.t.Y /\ s.b # ZeroBox /\ s.t # SentinelY1
              /\ FLt(op.da.Min.Y, ret.area.Min.Y)
              /\ FLt(Max(ret.area).Y, Max(op.da).Y)

\* C3: a pass whose selected boxes have the same anchor returns the region
\* it was given.
SingularAnchorSafety ==
    /\ op.name = "padX" =>
         LET s == padXBoxes(P, op.da)
         IN  s.l.X = s.r.X => SameRegion(ret.area, op.da)
    /\ op.name = "padY" =>
         LET s == padYBoxes(P, op.da)
         IN  s.b.Y = s.t.Y => SameRegion(ret.area, op.da)

\* C7 as stated: if every collected box is anchored strictly inside (0,1),
\* the pass returns the region it was given.
NoGlyphIdentityAnyOffset ==
    /\ op.name = "padX" =>
         ((\A i \in 1..Len(AllXBoxes) : InsideUnit(AllXBoxes[i].X))
            => SameRegion(ret.area, op.da))
    /\ op.name = "padY" =>
         ((\A i \in 1..Len(AllYBoxes) : InsideUnit(AllYBoxes[i].Y))
            => SameRegion(ret.area, op.da))

\* C7: if every collected box is anchored strictly inside (0,1) and, placed
\* in the given region, does not reach beyond that region's two edges on the
\* axis of the pass, the pass returns the region it was given.
NoGlyphIdentity ==
    /\ op.name = "padX" =>
         ((\A i \in 1..Len(AllXBoxes) :
               /\ InsideUnit(AllXBoxes[i].X)
               /\ FLe(op.da.Min.X, LeftEdge(op.da, AllXBoxes[i]))
               /\ FLe(RightEdge(op.da, AllXBoxes[i]), Max(op.da).X))
            => SameRegion(ret.area, op.da))
    /\ op.name = "padY" =>
         ((\A i \in 1..Len(AllYBoxes) :
               /\ InsideUnit(AllYBoxes[i].Y)
               /\ FLe(op.da.Min.Y, BottomEdge(op.da, AllYBoxes[i]))
               /\ FLe(TopEdge(op.da, AllYBoxes[i]), Max(op.da).Y))
            => SameRegion(ret.area, op.da))

\* a pass over a plot with glyph boxes and axis boxes, all strictly inside
\* (0,1) and within the region, that returned the region unchanged
NoGlyphIdentityWitness ==
    /\ op.name \in {"padX", "padY"}
    /\ GlyphBoxes(P) # <<>>
    /\ xAxisGlyphBoxes(P) # <<>>
    /\ \A i \in 1..Len(AllXBoxes) :
           /\ InsideUnit(AllXBoxes[i].X) /\ InsideUnit(AllXBoxes[i].Y)
           /\ FLe(op.da.Min.X, LeftEdge(op.da, AllXBoxes[i]))
           /\ FLe(RightEdge(op.da, AllXBoxes[i]), Max(op.da).X)
           /\ FLe(op.da.Min.Y, BottomEdge(op.da, AllXBoxes[i]))
           /\ FLe(TopEdge(op.da, AllXBoxes[i]), Max(op.da).Y)
    /\ SameRegion(ret.area, op.da)

\* the first box of lowest key among the boxes with index in C, or the
\* sentinel when C is empty
FirstLowest(boxes, C, key(_), sentinel) ==
    IF C = {} THEN sentinel
    ELSE boxes[CHOOSE i \in C :
                 \A j \in C : \/ FLt(key(boxes[i]), key(boxes[j]))
                              \/ key(boxes[i]) = key(boxes[j]) /\ i <= j]

\* the box reaching furthest beyond the left (bottom) edge of da, among the
\* boxes anchored at 0 or more that reach beyond it
FurthestLeft(da, boxes) ==
    LET key(b) == LeftEdge(da, b)
    IN  FirstLowest(boxes,
                    {i \in 1..Len(boxes) :
                        FLe(I(0), boxes[i].X) /\ FLt(key(boxes[i]), da.Min.X)},
                    key, ZeroBox)

FurthestBottom(da, boxes) ==
    LET key(b) == BottomEdge(da, b)
    IN  FirstLowest(boxes,
                    {i \in 1..Len(boxes) :
                        FLe(I(0), boxes[i].Y) /\ FLt(key(boxes[i]), da.Min.Y)},
                    key, ZeroBox)

\* the box reaching furthest beyond the right (top) edge of da, among the
\* boxes anchored at 1 or less that reach beyond it
FurthestRight(da, boxes) ==
    LET key(b) == FNeg(RightEdge(da, b))
    IN  FirstLowest(boxes,
                    {i \in 1..Len(boxes) :
                        FLe(boxes[i].X, I(1)) /\ FLt(Max(da).X, RightEdge(da, boxes[i]))},
                    key, SentinelX1)

FurthestTop(da, boxes) ==
    LET key(b) == FNeg(TopEdge(da, b))
    IN  FirstLowest(boxes,
                    {i \in 1..Len(boxes) :
                        FLe(boxes[i].Y, I(1)) /\ FLt(Max(da).Y, TopEdge(da, boxes[i]))},
                    key, SentinelY1)

Reported == {plotters[i].range : i \in {j \in 1..Len(plotters) : plotters[j].ranger}}

Lowest(S) == CHOOSE m \in S : \A k \in S : FLe(m, k)

Highest(S) == CHOOSE m \in S : \A k \in S : FLe(k, m)

\* after Add calls alone the bounds are the extremes of the reported ranges
FinalBounds ==
    Reported # {} =>
        /\ X.Min = Lowest({d.xmin : d \in Reported})
        /\ X.Max = Highest({d.xmax : d \in Reported})
        /\ Y.Min = Lowest({d.ymin : d \in Reported})
        /\ Y.Max = Highest({d.ymax : d \in Reported})

\* an Add call never raises a Min nor lowers a Max, and changes no bound
\* when none of its plotters is a DataRanger
WideningStep ==
    op'.name = "Add" =>
        /\ FLe(X'.Min, X.Min) /\ FLe(X.Max, X'.Max)
        /\ FLe(Y'.Min, Y.Min) /\ FLe(Y.Max, Y'.Max)
        /\ (\A i \in 1..Len(op'.ps) : ~op'.ps[i].ranger) => (X' = X /\ Y' = Y)

\* C4: across any sequence of Add calls X.Min and Y.Min never increase and
\* X.Max and Y.Max never decrease, plotters without DataRanger leave the
\* bounds unchanged, and the bounds equal the extremes of the reported ranges.
MonotonicRangeWidening == []FinalBounds /\ [][WideningStep]_vars

\* a second Add call whose data ranger widened the bounds of the first
MonotonicRangeWideningWitness ==
    /\ op.name = "Add"
    /\ Len(op.ps) = 1
    /\ Cardinality(Reported) >= 2
    /\ FLt(X.Min, I(0)) /\ FLt(I(2), X.Max)

(***************************************************************************)
(* Properties of Draw, checked under Spec.                                 *)
(***************************************************************************)
IsPlotCall(e) == e.op = "Plot"

CallsOf(name) == {i \in 1..Len(calls) : calls[i].op = name}

\* the final inner region of the Draw call recorded in op
FinalInner ==
    padY(P, padX(P, crop(underTitle(P, op.da), cfg.ywidth, cfg.xheight, I(0), I(0))))

\* C5: Draw calls Plot on every registered plotter once, in registration
\* order, each with the final inner region, after both axes are drawn, and
\* draws the legend last with the same region.
DrawSequence ==
    op.name = "Draw" =>
        LET pc == SelectSeq(calls, IsPlotCall)
        IN  /\ [i \in 1..Len(pc) |-> pc[i].arg] = plotters
            /\ \A i \in 1..Len(pc) : pc[i].da = FinalInner
            /\ Cardinality(CallsOf("x.draw")) = 1
            /\ Cardinality(CallsOf("y.draw")) = 1
            /\ \A i \in CallsOf("Plot") :
                   \A j \in CallsOf("x.draw") \cup CallsOf("y.draw") : j < i
            /\ CallsOf("Legend.draw") = {Len(calls)}
            /\ calls[Len(calls)].da = FinalInner

\* a Draw of a plot with different plotters, whose padding moved the region
DrawSequenceWitness ==
    /\ op.name = "Draw"
    /\ Len(plotters) >= 2
    /\ plotters[1] # plotters[2]
    /\ cfg.title # ""
    /\ IsFinite(FinalInner.Min.X) /\ IsFinite(FinalInner.Min.Y)
    /\ FinalInner # crop(underTitle(P, op.da), cfg.ywidth, cfg.xheight, I(0), I(0))

\* no padding pass of the Draw call recorded in op is singular
NoSingularPass ==
    LET da == underTitle(P, op.da)
        a1 == crop(da, cfg.ywidth, I(0), I(0), I(0))
        a2 == crop(da, I(0), cfg.xheight, I(0), I(0))
        a3 == crop(da, cfg.ywidth, cfg.xheight, I(0), I(0))
    IN  /\ padXBoxes(P, a1).l.X # padXBoxes(P, a1).r.X
        /\ padYBoxes(P, a2).b.Y # padYBoxes(P, a2).t.Y
        /\ padXBoxes(P, a3).l.X # padXBoxes(P, a3).r.X
        /\ padYBoxes(P, padX(P, a3)).b.Y # padYBoxes(P, padX(P, a3)).t.Y

\* C10: within one Draw call without a singular pass, the region the
\* horizontal axis is drawn in has the Min.X and Size.X of the final inner
\* region, and the region the vertical axis is drawn in has its Min.Y and
\* Size.Y.
AxisDataAlignment ==
    (op.name = "Draw" /\ NoSingularPass) =>
        \A i \in CallsOf("x.draw"), j \in CallsOf("y.draw"), k \in CallsOf("Legend.draw") :
            /\ FEq(calls[i].da.Min.X, calls[k].da.Min.X)
            /\ FEq(calls[i].da.Size.X, calls[k].da.Size.X)
            /\ FEq(calls[j].da.Min.Y, calls[k].da.Min.Y)
            /\ FEq(calls[j].da.Size.Y, calls[k].da.Size.Y)

\* a Draw with a title and glyph boxes whose padding moved the inner region
\* on both axes
AxisDataAlignmentWitness ==
    /\ op.name = "Draw" /\ NoSingularPass
    /\ cfg.title # ""
    /\ GlyphBoxes(P) # <<>>
    /\ \E k \in CallsOf("Legend.draw"), i \in CallsOf("x.draw") :
           LET a3 == crop(underTitle(P, op.da), cfg.ywidth, cfg.xheight, I(0), I(0))
           IN  /\ ~FEq(calls[k].da.Min.X, a3.Min.X)
               /\ ~FEq(calls[k].da.Min.Y, a3.Min.Y)
               /\ ~FEq(calls[i].da.Min.Y, calls[k].da.Min.Y)

(***************************************************************************)
(* Properties of Save, checked under SpecSave.                             *)
(***************************************************************************)
\* the supported extensions with the construction and persistence calls of
\* their branches
Branches ==
    {<< <<".", "e", "p", "s">>, "veceps.New", "veceps.Save" >>,
     << <<".", "p", "n", "g">>, "vecimg.New", "SavePNG" >>,
     << <<".", "j", "p", "g">>, "vecimg.New", "SaveJPEG" >>,
     << <<".", "j", "p", "e", "g">>, "vecimg.New", "SaveJPEG" >>,
     << <<".", "s", "v", "g">>, "vecsvg.New", "vecsvg.Save" >>,
     << <<".", "p", "d", "f">>, "vecpdf.New", "vecpdf.Save" >>}

UpperOf(c) ==
    IF \E k \in 1..Len(Lowers) : Lowers[k] = c
    THEN Uppers[CHOOSE k \in 1..Len(Lowers) : Lowers[k] = c]
    ELSE c

\* e is the lower-case extension t up to the case of its letters
SameUpToCase(e, t) ==
    /\ Len(e) = Len(t)
    /\ \A i \in 1..Len(t) : e[i] = t[i] \/ e[i] = UpperOf(t[i])

\* the branch of the file of the Save call recorded in op, if supported
BranchOfFile == {b \in Branches : SameUpToCase(Ext(op.file), b[1])}

ConstructionCalls == {b[2] : b \in Branches}

PersistenceCalls == {b[3] : b \in Branches}

\* C6: Save of a file whose extension is not a supported one, whatever the
\* case of its letters, returns the unsupported-extension error having
\* constructed no backend, not drawn and not persisted; an extension that is
\* a supported one up to case takes the branch of the lower-case extension.
SaveDispatch ==
    op.name = "Save" =>
        /\ BranchOfFile = {} =>
             /\ ret.err.kind = "Unsupported file extension"
             /\ calls = <<>>
        /\ \A b \in BranchOfFile :
             /\ calls # <<>>
             /\ calls[1].op = b[2]
             /\ ret.err.kind # "Unsupported file extension"
             /\ Len(calls) > 1 => calls[Len(calls)].op = b[3]

\* a Save to a file with an unsupported, non-empty extension
SaveDispatchWitness ==
    /\ op.name = "Save"
    /\ BranchOfFile = {}
    /\ Len(Ext(op.file)) > 1
    /\ ret.err.kind = "Unsupported file extension"
    /\ plotters # <<>>

\* C9: for a supported extension, a failed construction is returned before
\* Draw and without persisting; otherwise Draw is called once, then the
\* persistence step runs once, after Draw, and its failure is returned.
SaveFinalization ==
    op.name = "Save" =>
        \A b \in BranchOfFile :
            IF b[2] = "vecimg.New" /\ ~op.newOk
            THEN /\ ret.err.kind = "new"
                 /\ CallsOf("Draw") = {}
                 /\ \A n \in PersistenceCalls : CallsOf(n) = {}
            ELSE /\ Cardinality(CallsOf("Draw")) = 1
                 /\ CallsOf(b[3]) = {Len(calls)}
                 /\ \A n \in PersistenceCalls \ {b[3]} : CallsOf(n) = {}
                 /\ ~op.saveOk => ret.err.kind = "save"

====
